---- MODULE Spec2Model ----
(***************************************************************************)
(* Bus station booking API (station/views.py, station/serializers.py,      *)
(* station/permissions.py).                                                *)
(*                                                                         *)
(* The persistent store is the state: facilities, buses, trips, orders and *)
(* tickets.  Every request handler of the four viewsets is one action; a   *)
(* request is handled atomically (one request, one step) and the request   *)
(* together with its outcome is recorded in resp.                          *)
(*                                                                         *)
(* station/models.py and the serializers other than BusSerializer are not  *)
(* part of the sources at hand; what they do is taken from the written     *)
(* specification and marked so where it is defined.                        *)
(***************************************************************************)
EXTENDS Integers, Sequences, FiniteSets, TLC

VARIABLES facilities, buses, trips, orders, tickets, nextTripId, nextTicketId, resp

vars == <<facilities, buses, trips, orders, tickets, nextTripId, nextTicketId, resp>>
store == <<facilities, buses, trips, orders, tickets, nextTripId, nextTicketId>>

(***************************************************************************)
(* Bounds of the model: how many rows each collection may hold in each of    *)
(* the specifications below (the actions take the cap as a parameter).     *)
(***************************************************************************)
MaxFacilities == 1
MaxBuses == 1
MaxTrips == 1
MaxOrders == 1
RegistryMaxFacilities == 2
RegistryMaxBuses == 2
DetailMaxFacilities == 2
DetailMaxBuses == 1
CreateMaxBuses == 2
BookingMaxBuses == 1
BookingMaxTrips == 1
BookingMaxOrders == 1
MaxTicketsPerOrder == 2

(***************************************************************************)
(* Identities.  request.user is AnonymousUser for a request without        *)
(* credentials; NoUser stands for request.user = None.                     *)
(***************************************************************************)
UserNames == {"alice", "bob", "admin"}
StaffNames == {"admin"}
User(n) == [name |-> n, is_authenticated |-> TRUE, is_staff |-> n \in StaffNames]
AnonymousUser == [name |-> "anon", is_authenticated |-> FALSE, is_staff |-> FALSE]
NoUser == [name |-> "None", is_authenticated |-> FALSE, is_staff |-> FALSE]

\* Python truthiness of request.user
Truthy(user) == user.name # "None"

SAFE_METHODS == {"GET", "HEAD", "OPTIONS"}
Methods == {"GET", "HEAD", "OPTIONS", "POST", "PUT", "PATCH", "DELETE"}

(***************************************************************************)
(* Permission classes.                                                     *)
(***************************************************************************)
has_permission_no_auth(method, user) ==
    \/ method \in SAFE_METHODS /\ Truthy(user)
    \/ Truthy(user) /\ user.is_staff

\* IsAdminOrIFAuthenticatedReadOnly.has_permission
has_permission(method, user) ==
    \/ method \in SAFE_METHODS /\ Truthy(user) /\ user.is_authenticated
    \/ Truthy(user) /\ user.is_staff

IsAuthenticated_any(user) == Truthy(user)

\* rest_framework.permissions.IsAuthenticated, as used by OrderViewSet
IsAuthenticated(user) == Truthy(user) /\ user.is_authenticated

IsAdminUser_authenticated(user) == Truthy(user) /\ user.is_authenticated

\* rest_framework.permissions.IsAdminUser, as used by upload_image
IsAdminUser(user) == Truthy(user) /\ user.is_staff

\* APIView.permission_denied: which of the two rejections is raised
Denied(user) == IF user.is_authenticated THEN "PermissionDenied" ELSE "NotAuthenticated"

PermissionErrors == {"PermissionDenied", "NotAuthenticated"}

(***************************************************************************)
(* Requests and responses.                                                 *)
(***************************************************************************)
None == <<"None">>          \* query_params.get(...) of an absent parameter
NoData == [empty |-> TRUE]  \* a request without a body

Response(resource, action, method, user, query, pk, data, status, rows) ==
    [resource |-> resource, action |-> action, method |-> method,
     user |-> user.name, query |-> query, pk |-> pk, data |-> data,
     status |-> status, rows |-> rows]

Range(s) == {s[i] : i \in 1..Len(s)}

\* QuerySet.get(pk=pk) inside get_object: the rows of the queryset with that id
RowsWithPk(queryset, pk) == SelectSeq(queryset, LAMBDA r : r.id = pk)

\* get_object: Http404 on no row, MultipleObjectsReturned on several
GetObjectStatus(queryset, pk) ==
    CASE Len(RowsWithPk(queryset, pk)) = 0 -> "NotFound"
      [] Len(RowsWithPk(queryset, pk)) = 1 -> "ok"
      [] OTHER -> "ServerError"

(***************************************************************************)
(* Facility catalog.                                                       *)
(***************************************************************************)
\* FacilitySerializer: name is required and not blank
FacilityValid(data) == "name" \in DOMAIN data /\ data.name # ""

FacilityList(u) ==
    /\ resp' = IF has_permission("GET", u)
               THEN Response("facilities", "list", "GET", u, None, 0, NoData, "ok", facilities)
               ELSE Response("facilities", "list", "GET", u, None, 0, NoData, Denied(u), <<>>)
    /\ UNCHANGED store

FacilityCreate(u, data, cap) ==
    LET permitted == has_permission("POST", u)
        new == [id |-> Len(facilities) + 1, name |-> data.name]
    IN  /\ (permitted /\ FacilityValid(data)) => Len(facilities) < cap
        /\ IF ~permitted
           THEN /\ resp' = Response("facilities", "create", "POST", u, None, 0, data, Denied(u), <<>>)
                /\ UNCHANGED facilities
           ELSE IF ~FacilityValid(data)
           THEN /\ resp' = Response("facilities", "create", "POST", u, None, 0, data, "ValidationError", <<>>)
                /\ UNCHANGED facilities
           ELSE /\ facilities' = Append(facilities, new)
                /\ resp' = Response("facilities", "create", "POST", u, None, 0, data, "ok", <<new>>)
        /\ UNCHANGED <<buses, trips, orders, tickets, nextTripId, nextTicketId>>

(***************************************************************************)
(* Bus registry.                                                           *)
(***************************************************************************)
Digits == {"0", "1", "2", "3", "4", "5", "6", "7", "8", "9"}

DigitVal(c) ==
    CASE c = "0" -> 0 [] c = "1" -> 1 [] c = "2" -> 2 [] c = "3" -> 3 [] c = "4" -> 4
      [] c = "5" -> 5 [] c = "6" -> 6 [] c = "7" -> 7 [] c = "8" -> 8 [] c = "9" -> 9

\* str.split(sep): the segments between separators, empty segments included
RECURSIVE split(_, _)
split(s, sep) ==
    IF \A i \in 1..Len(s) : s[i] # sep
    THEN <<s>>
    ELSE LET k == CHOOSE i \in 1..Len(s) : s[i] = sep /\ \A j \in 1..(i - 1) : s[j] # sep
         IN  <<SubSeq(s, 1, k - 1)>> \o split(SubSeq(s, k + 1, Len(s)), sep)

\* int(str) succeeds on a non-empty string of digits and raises ValueError otherwise
IsIntLiteral(seg) == Len(seg) > 0 /\ \A i \in 1..Len(seg) : seg[i] \in Digits

RECURSIVE int(_)
int(seg) ==
    IF Len(seg) = 0 THEN 0
    ELSE 10 * int(SubSeq(seg, 1, Len(seg) - 1)) + DigitVal(seg[Len(seg)])

\* BusViewSet._params_to_ints
_params_to_ints(qs) == [i \in 1..Len(split(qs, ",")) |-> int(split(qs, ",")[i])]

\* _params_to_ints raises ValueError
ParamsRaise(qs) == \E i \in 1..Len(split(qs, ",")) : ~IsIntLiteral(split(qs, ",")[i])

\* `if facilities:` - the parameter is present and not the empty string
FacilitiesGiven(query) == query # None /\ query # <<>>

\* queryset.filter(facilities__id__in=ids): the join of bus and bus_facilities,
\* one row per attached facility whose id is in ids
RECURSIVE filter_facilities_id_in(_, _)
filter_facilities_id_in(queryset, ids) ==
    IF queryset = <<>> THEN <<>>
    ELSE LET b == Head(queryset)
             n == Cardinality(b.facilities \cap ids)
         IN  [i \in 1..n |-> b] \o filter_facilities_id_in(Tail(queryset), ids)

\* queryset.distinct(): every row once, in the order of first occurrence
RECURSIVE distinct(_)
distinct(rows) ==
    IF rows = <<>> THEN <<>>
    ELSE LET front == distinct(SubSeq(rows, 1, Len(rows) - 1))
             last == rows[Len(rows)]
         IN  IF last \in Range(front) THEN front ELSE Append(front, last)

BusViewSet_get_queryset_no_distinct(query, action) ==
    IF FacilitiesGiven(query)
    THEN filter_facilities_id_in(buses, Range(_params_to_ints(query)))
    ELSE buses

BusViewSet_get_queryset_list_only(query, action) ==
    IF FacilitiesGiven(query) /\ action = "list"
    THEN distinct(filter_facilities_id_in(buses, Range(_params_to_ints(query))))
    ELSE buses

\* BusViewSet.get_queryset (prefetch_related does not change the rows)
BusViewSet_get_queryset(query, action) ==
    IF FacilitiesGiven(query)
    THEN distinct(filter_facilities_id_in(buses, Range(_params_to_ints(query))))
    ELSE buses

\* get_queryset raises before any row is read
QueryRaises(query) == FacilitiesGiven(query) /\ ParamsRaise(query)

BusList(u, query) ==
    /\ resp' = IF ~has_permission("GET", u)
               THEN Response("buses", "list", "GET", u, query, 0, NoData, Denied(u), <<>>)
               ELSE IF QueryRaises(query)
               THEN Response("buses", "list", "GET", u, query, 0, NoData, "ServerError", <<>>)
               ELSE Response("buses", "list", "GET", u, query, 0, NoData, "ok",
                             BusViewSet_get_queryset(query, "list"))
    /\ UNCHANGED store

BusRetrieve(u, pk, query) ==
    /\ resp' = IF ~has_permission("GET", u)
               THEN Response("buses", "retrieve", "GET", u, query, pk, NoData, Denied(u), <<>>)
               ELSE IF QueryRaises(query)
               THEN Response("buses", "retrieve", "GET", u, query, pk, NoData, "ServerError", <<>>)
               ELSE LET queryset == BusViewSet_get_queryset(query, "retrieve")
                    IN  Response("buses", "retrieve", "GET", u, query, pk, NoData,
                                 GetObjectStatus(queryset, pk),
                                 IF GetObjectStatus(queryset, pk) = "ok"
                                 THEN RowsWithPk(queryset, pk) ELSE <<>>)
    /\ UNCHANGED store

\* BusSerializer fields: num_seats = IntegerField(required=True), info optional
BusSerializer_is_valid(data) == "num_seats" \in DOMAIN data

\* Bus.objects.create(**validated_data): the row the storage layer writes
BusRow(data) ==
    [id |-> Len(buses) + 1,
     info |-> IF "info" \in DOMAIN data THEN data.info ELSE "",
     num_seats |-> data.num_seats,
     facilities |-> {},
     image |-> ""]

\* BusSerializer.create behind CreateModelMixin.create.  A negative num_seats
\* passes the serializer; whether the column accepts it depends on the model
\* field, so both outcomes are possible.
BusCreate(u, data, cap) ==
    LET permitted == has_permission("POST", u)
    IN  /\ (permitted /\ BusSerializer_is_valid(data)) => Len(buses) < cap
        /\ IF ~permitted
           THEN /\ resp' = Response("buses", "create", "POST", u, None, 0, data, Denied(u), <<>>)
                /\ UNCHANGED buses
           ELSE IF ~BusSerializer_is_valid(data)
           THEN /\ resp' = Response("buses", "create", "POST", u, None, 0, data, "ValidationError", <<>>)
                /\ UNCHANGED buses
           ELSE \/ /\ buses' = Append(buses, BusRow(data))
                   /\ resp' = Response("buses", "create", "POST", u, None, 0, data, "ok", <<BusRow(data)>>)
                \/ /\ data.num_seats < 0
                   /\ resp' = Response("buses", "create", "POST", u, None, 0, data, "ServerError", <<>>)
                   /\ UNCHANGED buses
        /\ UNCHANGED <<facilities, trips, orders, tickets, nextTripId, nextTicketId>>

ImagePayloads == {[image |-> "bus.png"], NoData}

\* BusImageSerializer: an image is required
ImageValid(data) == "image" \in DOMAIN data

\* BusViewSet.upload_image
upload_image(u, pk, query, data) ==
    LET queryset == BusViewSet_get_queryset(query, "upload_image")
        found == GetObjectStatus(queryset, pk)
        bus == [buses[pk] EXCEPT !.image = data.image]
    IN  /\ IF ~IsAdminUser(u)
           THEN /\ resp' = Response("buses", "upload_image", "POST", u, query, pk, data, Denied(u), <<>>)
                /\ UNCHANGED buses
           ELSE IF QueryRaises(query)
           THEN /\ resp' = Response("buses", "upload_image", "POST", u, query, pk, data, "ServerError", <<>>)
                /\ UNCHANGED buses
           ELSE IF found # "ok"
           THEN /\ resp' = Response("buses", "upload_image", "POST", u, query, pk, data, found, <<>>)
                /\ UNCHANGED buses
           ELSE IF ~ImageValid(data)
           THEN /\ resp' = Response("buses", "upload_image", "POST", u, query, pk, data, "ValidationError", <<>>)
                /\ UNCHANGED buses
           ELSE /\ buses' = [buses EXCEPT ![pk] = bus]
                /\ resp' = Response("buses", "upload_image", "POST", u, query, pk, data, "ok", <<bus>>)
        /\ UNCHANGED <<facilities, trips, orders, tickets, nextTripId, nextTicketId>>

\* Bus.facilities (many-to-many): a facility is attached to a bus outside the
\* API of the viewsets (BusSerializer has no facilities field)
AttachFacility(b, f) ==
    /\ b \in 1..Len(buses)
    /\ f \in 1..Len(facilities)
    /\ f \notin buses[b].facilities
    /\ buses' = [buses EXCEPT ![b].facilities = @ \cup {f}]
    /\ UNCHANGED <<facilities, trips, orders, tickets, nextTripId, nextTicketId, resp>>


(***************************************************************************)
(* Trip schedule.                                                          *)
(***************************************************************************)
\* Count("tickets"): the ticket rows the join attaches to the trip
Count_tickets(trip) == Len(SelectSeq(tickets, LAMBDA k : k.trip = trip.id))

\* F("bus__num_seats"): the capacity of the bus the trip references
bus__num_seats(trip) == buses[trip.bus].num_seats

annotate_count_orders(trip) ==
    [id |-> trip.id, bus |-> trip.bus,
     tickets_available |-> bus__num_seats(trip)
         - Cardinality({tickets[i].order : i \in {j \in 1..Len(tickets) : tickets[j].trip = trip.id}})]

\* annotate(tickets_available=F("bus__num_seats") - Count("tickets"))
annotate(trip) ==
    [id |-> trip.id, bus |-> trip.bus,
     tickets_available |-> bus__num_seats(trip) - Count_tickets(trip)]

\* TripViewSet.get_queryset
TripViewSet_get_queryset(action) ==
    IF action \in {"list", "retrieve"}
    THEN [i \in 1..Len(trips) |-> annotate(trips[i])]
    ELSE trips

TripList(u) ==
    /\ resp' = IF has_permission("GET", u)
               THEN Response("trips", "list", "GET", u, None, 0, NoData, "ok",
                             TripViewSet_get_queryset("list"))
               ELSE Response("trips", "list", "GET", u, None, 0, NoData, Denied(u), <<>>)
    /\ UNCHANGED store

TripRetrieve(u, pk) ==
    /\ resp' = IF has_permission("GET", u)
               THEN LET queryset == TripViewSet_get_queryset("retrieve")
                    IN  Response("trips", "retrieve", "GET", u, None, pk, NoData,
                                 GetObjectStatus(queryset, pk), RowsWithPk(queryset, pk))
               ELSE Response("trips", "retrieve", "GET", u, None, pk, NoData, Denied(u), <<>>)
    /\ UNCHANGED store

\* TripSerializer: bus is required and must reference an existing bus
TripValid(data) == "bus" \in DOMAIN data /\ data.bus \in 1..Len(buses)

\* TripSerializer with partial=True: an absent bus is left alone
TripPartialValid(data) == "bus" \in DOMAIN data => data.bus \in 1..Len(buses)

TripCreate(u, data, cap) ==
    LET permitted == has_permission("POST", u)
        new == [id |-> nextTripId, bus |-> data.bus]
    IN  /\ (permitted /\ TripValid(data)) => nextTripId <= cap
        /\ IF ~permitted
           THEN /\ resp' = Response("trips", "create", "POST", u, None, 0, data, Denied(u), <<>>)
                /\ UNCHANGED <<trips, nextTripId>>
           ELSE IF ~TripValid(data)
           THEN /\ resp' = Response("trips", "create", "POST", u, None, 0, data, "ValidationError", <<>>)
                /\ UNCHANGED <<trips, nextTripId>>
           ELSE /\ trips' = Append(trips, new)
                /\ nextTripId' = nextTripId + 1
                /\ resp' = Response("trips", "create", "POST", u, None, 0, data, "ok", <<new>>)
        /\ UNCHANGED <<facilities, buses, orders, tickets, nextTicketId>>

\* UpdateModelMixin.update (PUT) and partial_update (PATCH)
TripUpdate(u, pk, data, method) ==
    LET action == IF method = "PATCH" THEN "partial_update" ELSE "update"
        queryset == TripViewSet_get_queryset(action)
        found == GetObjectStatus(queryset, pk)
        valid == IF method = "PATCH" THEN TripPartialValid(data) ELSE TripValid(data)
        updated(t) == IF t.id = pk /\ "bus" \in DOMAIN data THEN [t EXCEPT !.bus = data.bus] ELSE t
    IN  /\ method \in {"PUT", "PATCH"}
        /\ IF ~has_permission(method, u)
           THEN /\ resp' = Response("trips", action, method, u, None, pk, data, Denied(u), <<>>)
                /\ UNCHANGED trips
           ELSE IF found # "ok"
           THEN /\ resp' = Response("trips", action, method, u, None, pk, data, found, <<>>)
                /\ UNCHANGED trips
           ELSE IF ~valid
           THEN /\ resp' = Response("trips", action, method, u, None, pk, data, "ValidationError", <<>>)
                /\ UNCHANGED trips
           ELSE /\ trips' = [i \in 1..Len(trips) |-> updated(trips[i])]
                /\ resp' = Response("trips", action, method, u, None, pk, data, "ok",
                                    <<updated(RowsWithPk(queryset, pk)[1])>>)
        /\ UNCHANGED <<facilities, buses, orders, tickets, nextTripId, nextTicketId>>

\* DestroyModelMixin.destroy; the tickets of the trip go with it
TripDestroy(u, pk) ==
    LET queryset == TripViewSet_get_queryset("destroy")
        found == GetObjectStatus(queryset, pk)
    IN  /\ IF ~has_permission("DELETE", u)
           THEN /\ resp' = Response("trips", "destroy", "DELETE", u, None, pk, NoData, Denied(u), <<>>)
                /\ UNCHANGED <<trips, tickets>>
           ELSE IF found # "ok"
           THEN /\ resp' = Response("trips", "destroy", "DELETE", u, None, pk, NoData, found, <<>>)
                /\ UNCHANGED <<trips, tickets>>
           ELSE /\ trips' = SelectSeq(trips, LAMBDA t : t.id # pk)
                /\ tickets' = SelectSeq(tickets, LAMBDA k : k.trip # pk)
                /\ resp' = Response("trips", "destroy", "DELETE", u, None, pk, NoData, "ok", <<>>)
        /\ UNCHANGED <<facilities, buses, orders, nextTripId, nextTicketId>>

(***************************************************************************)
(* Order aggregate.                                                        *)
(***************************************************************************)
page_size == 5

\* OrderPagination: the first page of the queryset
paginate(queryset) == SubSeq(queryset, 1, IF Len(queryset) < page_size THEN Len(queryset) ELSE page_size)

OrderViewSet_get_queryset_staff_sees_all(user) ==
    IF user.is_staff THEN orders ELSE SelectSeq(orders, LAMBDA o : o.user = user.name)

\* OrderViewSet.get_queryset: self.queryset.filter(user=self.request.user)
OrderViewSet_get_queryset(user) == SelectSeq(orders, LAMBDA o : o.user = user.name)

OrderList(u) ==
    /\ resp' = IF IsAuthenticated(u)
               THEN Response("orders", "list", "GET", u, None, 0, NoData, "ok",
                             paginate(OrderViewSet_get_queryset(u)))
               ELSE Response("orders", "list", "GET", u, None, 0, NoData, Denied(u), <<>>)
    /\ UNCHANGED store

OrderRetrieve(u, pk) ==
    /\ resp' = IF IsAuthenticated(u)
               THEN LET queryset == OrderViewSet_get_queryset(u)
                    IN  Response("orders", "retrieve", "GET", u, None, pk, NoData,
                                 GetObjectStatus(queryset, pk), RowsWithPk(queryset, pk))
               ELSE Response("orders", "retrieve", "GET", u, None, pk, NoData, Denied(u), <<>>)
    /\ UNCHANGED store

\* OrderSerializer: at least one ticket, every ticket on an existing trip
OrderValid(data) ==
    /\ "tickets" \in DOMAIN data
    /\ Len(data.tickets) >= 1
    /\ \A i \in 1..Len(data.tickets) : \E j \in 1..Len(trips) : trips[j].id = data.tickets[i].trip

\* BaseSerializer.save(**kwargs): validated_data = {**self.validated_data, **kwargs}
save_validated_data(validated_data, kwargs) ==
    [f \in DOMAIN validated_data \cup DOMAIN kwargs |->
        IF f \in DOMAIN kwargs THEN kwargs[f] ELSE validated_data[f]]

perform_create_payload_user(data, user) ==
    save_validated_data([user |-> user.name], data)

\* OrderViewSet.perform_create: serializer.save(user=self.request.user)
perform_create(data, user) ==
    save_validated_data(data, [user |-> user.name])

\* the ticket rows OrderSerializer.create writes for the order
TicketRows(saved, order) ==
    [i \in 1..Len(saved.tickets) |->
        [id |-> nextTicketId + i - 1, trip |-> saved.tickets[i].trip,
         seat |-> saved.tickets[i].seat, order |-> order]]

OrderCreate(u, data, cap) ==
    LET permitted == IsAuthenticated(u)
        saved == perform_create(data, u)
        new == [id |-> Len(orders) + 1, user |-> saved.user]
    IN  /\ (permitted /\ OrderValid(data)) => Len(orders) < cap
        /\ IF ~permitted
           THEN /\ resp' = Response("orders", "create", "POST", u, None, 0, data, Denied(u), <<>>)
                /\ UNCHANGED <<orders, tickets, nextTicketId>>
           ELSE IF ~OrderValid(data)
           THEN /\ resp' = Response("orders", "create", "POST", u, None, 0, data, "ValidationError", <<>>)
                /\ UNCHANGED <<orders, tickets, nextTicketId>>
           ELSE /\ orders' = Append(orders, new)
                /\ tickets' = tickets \o TicketRows(saved, new.id)
                /\ nextTicketId' = nextTicketId + Len(saved.tickets)
                /\ resp' = Response("orders", "create", "POST", u, None, 0, data, "ok", <<new>>)
        /\ UNCHANGED <<facilities, buses, trips, nextTripId>>

(***************************************************************************)
(* Initial state: an empty store, no request handled yet.                  *)
(***************************************************************************)
Init ==
    /\ facilities = <<>>
    /\ buses = <<>>
    /\ trips = <<>>
    /\ orders = <<>>
    /\ tickets = <<>>
    /\ nextTripId = 1
    /\ nextTicketId = 1
    /\ resp = Response("none", "none", "GET", AnonymousUser, None, 0, NoData, "none", <<>>)

\* the seat of the i-th ticket of a request
SeatAt(i) == IF i = 1 THEN "1A" ELSE IF i = 2 THEN "1B" ELSE "1C"

\* ticket lists of 1..n tickets on the given trip ids, in the order of the ids
TicketLists(tripIds, n) ==
    UNION {{[i \in 1..len |-> [trip |-> f[i], seat |-> SeatAt(i)]] :
               f \in {g \in [1..len -> tripIds] : \A i \in 1..(len - 1) : g[i] <= g[i + 1]}} :
           len \in 1..n}

(***************************************************************************)
(* Spec: the whole API, every operation of the four viewsets by an         *)
(* anonymous, a plain and a staff identity.                                *)
(***************************************************************************)
ApiIdentities == {AnonymousUser, User("alice"), User("admin")}
ApiFacilityPayloads == {[name |-> "WiFi"], [name |-> "AC"], NoData}
ApiBusPayloads == {[num_seats |-> 1]}
ApiTripPayloads == {[bus |-> 1]}
ApiOrderPayloads == {[tickets |-> t] : t \in TicketLists({1}, 1)}

Next ==
    \/ \E u \in ApiIdentities : FacilityList(u)
    \/ \E u \in ApiIdentities, data \in ApiFacilityPayloads : FacilityCreate(u, data, MaxFacilities)
    \/ \E u \in ApiIdentities : BusList(u, None)
    \/ \E u \in ApiIdentities, pk \in 1..MaxBuses : BusRetrieve(u, pk, None)
    \/ \E u \in ApiIdentities, data \in ApiBusPayloads : BusCreate(u, data, MaxBuses)
    \/ \E u \in ApiIdentities, pk \in 1..MaxBuses, data \in ImagePayloads :
          upload_image(u, pk, None, data)
    \/ \E u \in ApiIdentities : TripList(u)
    \/ \E u \in ApiIdentities, pk \in 1..MaxTrips : TripRetrieve(u, pk)
    \/ \E u \in ApiIdentities, data \in ApiTripPayloads : TripCreate(u, data, MaxTrips)
    \/ \E u \in ApiIdentities, pk \in 1..MaxTrips, data \in ApiTripPayloads : TripUpdate(u, pk, data, "PUT")
    \/ \E u \in ApiIdentities, pk \in 1..MaxTrips : TripUpdate(u, pk, NoData, "PATCH")
    \/ \E u \in ApiIdentities, pk \in 1..MaxTrips : TripDestroy(u, pk)
    \/ \E u \in ApiIdentities : OrderList(u)
    \/ \E u \in ApiIdentities, pk \in 1..MaxOrders : OrderRetrieve(u, pk)
    \/ \E u \in ApiIdentities, data \in ApiOrderPayloads : OrderCreate(u, data, MaxOrders)

Spec == Init /\ [][Next]_vars

(***************************************************************************)
(* SpecRegistry: bus list and retrieve under the range of facilities       *)
(* parameters.                                                             *)
(***************************************************************************)
RegistryIdentities == {User("admin")}
RegistryQueries == {None, <<>>, <<"1">>, <<"2">>, <<"1", ",", "2">>, <<"1", ",", "1">>,
                    <<"1", "2">>, <<"1", ",">>}

NextRegistry ==
    \/ \E u \in RegistryIdentities : FacilityCreate(u, [name |-> "WiFi"], RegistryMaxFacilities)
    \/ \E u \in RegistryIdentities : BusCreate(u, [num_seats |-> 1], RegistryMaxBuses)
    \/ \E u \in RegistryIdentities, query \in RegistryQueries : BusList(u, query)
    \/ \E u \in RegistryIdentities, pk \in 1..RegistryMaxBuses, query \in RegistryQueries :
          BusRetrieve(u, pk, query)
    \/ \E b \in 1..RegistryMaxBuses, f \in 1..RegistryMaxFacilities : AttachFacility(b, f)

SpecRegistry == Init /\ [][NextRegistry]_vars

(***************************************************************************)
(* SpecDetail: the detail actions of the bus registry, retrieve and        *)
(* upload_image, under the range of facilities parameters.                 *)
(***************************************************************************)
NextDetail ==
    \/ \E u \in RegistryIdentities : FacilityCreate(u, [name |-> "WiFi"], DetailMaxFacilities)
    \/ \E u \in RegistryIdentities : BusCreate(u, [num_seats |-> 1], DetailMaxBuses)
    \/ \E u \in RegistryIdentities, pk \in 1..DetailMaxBuses, query \in RegistryQueries :
          BusRetrieve(u, pk, query)
    \/ \E u \in RegistryIdentities, pk \in 1..DetailMaxBuses, query \in RegistryQueries,
          data \in ImagePayloads : upload_image(u, pk, query, data)
    \/ \E b \in 1..DetailMaxBuses, f \in 1..DetailMaxFacilities : AttachFacility(b, f)

SpecDetail == Init /\ [][NextDetail]_vars

(***************************************************************************)
(* SpecCreate: bus creation under the range of payloads.                   *)
(***************************************************************************)
CreateIdentities == {User("alice"), User("admin")}
CreateSeats == {-1, 0, 1}
CreateBusPayloads ==
    {[num_seats |-> n] : n \in CreateSeats} \cup {[info |-> "express"], NoData}
        \cup {[info |-> "express", num_seats |-> 1]}

NextCreate ==
    \/ \E u \in CreateIdentities, data \in CreateBusPayloads : BusCreate(u, data, CreateMaxBuses)
    \/ \E u \in CreateIdentities : BusList(u, None)
    \/ \E u \in CreateIdentities, pk \in 1..CreateMaxBuses : BusRetrieve(u, pk, None)

SpecCreate == Init /\ [][NextCreate]_vars

(***************************************************************************)
(* SpecBooking: trips and orders; buses have at least one seat.            *)
(***************************************************************************)
BookingIdentities == {User("alice"), User("bob"), User("admin")}
BookingBuyers == {User("alice"), User("bob")}
BookingReaders == {User("alice")}
BookingSeats == {1}
BookingOrderPayloads ==
    {[tickets |-> t] : t \in TicketLists(1..BookingMaxTrips, MaxTicketsPerOrder)}
        \cup {[tickets |-> t, user |-> "bob"] : t \in TicketLists(1..BookingMaxTrips, 1)}
        \cup {[tickets |-> <<>>]}

NextBooking ==
    \/ \E n \in BookingSeats : BusCreate(User("admin"), [num_seats |-> n], BookingMaxBuses)
    \/ \E b \in 1..BookingMaxBuses : TripCreate(User("admin"), [bus |-> b], BookingMaxTrips)
    \/ \E pk \in 1..BookingMaxTrips, b \in 1..BookingMaxBuses :
          TripUpdate(User("admin"), pk, [bus |-> b], "PUT")
    \/ \E pk \in 1..BookingMaxTrips : TripDestroy(User("admin"), pk)
    \/ \E u \in BookingReaders : TripList(u)
    \/ \E u \in BookingReaders, pk \in 1..BookingMaxTrips : TripRetrieve(u, pk)
    \/ \E u \in BookingBuyers, data \in BookingOrderPayloads : OrderCreate(u, data, BookingMaxOrders)
    \/ \E u \in BookingIdentities : OrderList(u)
    \/ \E u \in BookingIdentities, pk \in 1..BookingMaxOrders : OrderRetrieve(u, pk)

SpecBooking == Init /\ [][NextBooking]_vars

(***************************************************************************)
(* Properties.                                                             *)
(***************************************************************************)
IsOrders(r, action) == r.resource = "orders" /\ r.action = action
OwnerOf(pk) == {orders[i].user : i \in {j \in 1..Len(orders) : orders[j].id = pk}}

\* C1: an order is listed and retrieved for its owner only; retrieve of another
\* user's order id by any other user, staff included, answers not-found, the
\* same answer as for an id that does not exist.
OrderIsolation ==
    /\ (resp.resource = "orders" /\ resp.action \in {"list", "retrieve"}) =>
          \A i \in 1..Len(resp.rows) : resp.rows[i].user = resp.user
    /\ (IsOrders(resp, "retrieve") /\ resp.user \in UserNames) =>
          /\ (OwnerOf(resp.pk) # {} /\ resp.user \notin OwnerOf(resp.pk)) =>
                 (resp.status = "NotFound" /\ resp.rows = <<>>)
          /\ OwnerOf(resp.pk) = {} => (resp.status = "NotFound" /\ resp.rows = <<>>)

OrderIsolationWitness ==
    /\ IsOrders(resp, "retrieve")
    /\ resp.user = "admin"
    /\ OwnerOf(resp.pk) = {"alice"}
    /\ resp.status = "NotFound"

\* C2: a created order belongs to the requesting user whatever the payload
\* says, and the owner of a stored order never changes.
OrderOwnerStamped ==
    /\ [](IsOrders(resp, "create") /\ resp.status = "ok" =>
            /\ resp.rows[1].user = resp.user
            /\ OwnerOf(resp.rows[1].id) = {resp.user})
    /\ [][\A i \in 1..Len(orders) : Len(orders') >= i /\ orders'[i] = orders[i]]_vars

OrderOwnerStampedWitness ==
    /\ IsOrders(resp, "create")
    /\ resp.status = "ok"
    /\ "user" \in DOMAIN resp.data
    /\ resp.data.user # resp.user
    /\ OwnerOf(resp.rows[1].id) = {resp.user}

TicketsOn(tripId) == {i \in 1..Len(tickets) : tickets[i].trip = tripId}
SeatsLeft(trip) == buses[trip.bus].num_seats - Cardinality(TicketsOn(trip.id))
RequestedOn(data, tripId) == Cardinality({i \in 1..Len(data.tickets) : data.tickets[i].trip = tripId})
OrderCreated == IsOrders(resp', "create") /\ resp'.status = "ok" /\ Len(orders') = Len(orders) + 1

\* C3: trip list and trip retrieve report, for every trip, the seats of its bus
\* minus the tickets that reference the trip, and an order with k tickets on a
\* trip lowers the value reported for that trip by exactly k.
TicketsAvailableReported ==
    /\ [][(resp'.resource = "trips" /\ resp'.action \in {"list", "retrieve"}
              /\ resp'.status = "ok" /\ UNCHANGED store) =>
            /\ \A i \in 1..Len(resp'.rows) :
                  \E j \in 1..Len(trips) :
                      /\ trips[j].id = resp'.rows[i].id
                      /\ resp'.rows[i].tickets_available = SeatsLeft(trips[j])
            /\ resp'.action = "list" => Len(resp'.rows) = Len(trips)]_vars
    /\ [][OrderCreated =>
            \A j \in 1..Len(trips) :
                TripViewSet_get_queryset("list")'[j].tickets_available
                    = TripViewSet_get_queryset("list")[j].tickets_available
                        - RequestedOn(resp'.data, trips[j].id)]_vars

TicketsAvailableWitness ==
    /\ resp.resource = "trips"
    /\ resp.action = "list"
    /\ resp.status = "ok"
    /\ \E i \in 1..Len(resp.rows) :
          /\ Cardinality(TicketsOn(resp.rows[i].id)) = 2
          /\ resp.rows[i].tickets_available = buses[resp.rows[i].bus].num_seats - 2

\* C4: an order creation never leaves a trip with fewer than zero seats left:
\* one that would exceed the capacity of the bus is rejected.
CapacityNeverExceeded ==
    [][(OrderCreated /\ \A j \in 1..Len(trips) : SeatsLeft(trips[j]) >= 0) =>
          \A j \in 1..Len(trips') : SeatsLeft(trips[j])' >= 0]_vars

PolicyViewSets == {"facilities", "buses", "trips"}
Flags == {[name |-> "u", is_authenticated |-> a, is_staff |-> s] : a, s \in BOOLEAN}

\* C5: has_permission grants exactly the read-only requests of authenticated
\* identities and every request of staff, and the facilities, buses and trips
\* viewsets answer by that rule.
AccessPolicy ==
    /\ \A m \in Methods, user \in Flags :
          has_permission(m, user) <=>
              ((m \in SAFE_METHODS /\ user.is_authenticated) \/ user.is_staff)
    /\ \A m \in Methods : ~has_permission(m, NoUser)
    /\ (resp.resource \in PolicyViewSets /\ resp.action # "upload_image") =>
          (resp.status \notin PermissionErrors <=>
              ((resp.method \in SAFE_METHODS /\ resp.user \in UserNames)
                  \/ resp.user \in StaffNames))

AccessPolicyWitness ==
    /\ resp.resource = "buses"
    /\ resp.action = "retrieve"
    /\ resp.user = "alice"
    /\ resp.status = "ok"

WriteActions == {"create", "update", "partial_update", "destroy", "upload_image"}
PlainNames == UserNames \ StaffNames

\* C6: an authenticated identity without staff rights may list and retrieve
\* facilities, buses and trips; each of its create, update, delete and
\* upload-image requests is refused and changes none of them.
PlainUserReadOnly ==
    /\ []((resp.resource \in PolicyViewSets /\ resp.user \in PlainNames) =>
            /\ resp.action \in {"list", "retrieve"} => resp.status \notin PermissionErrors
            /\ resp.action \in WriteActions => resp.status = "PermissionDenied")
    /\ [][(resp'.resource \in PolicyViewSets /\ resp'.user \in PlainNames
              /\ resp'.action \in WriteActions) =>
            UNCHANGED <<facilities, buses, trips>>]_vars

PlainUserReadOnlyWitness ==
    /\ resp.resource = "facilities"
    /\ resp.action = "create"
    /\ resp.user = "alice"
    /\ resp.data = [name |-> "AC"]
    /\ resp.status = "PermissionDenied"
    /\ facilities = <<[id |-> 1, name |-> "WiFi"]>>

\* C7: a request without credentials is refused on every endpoint, reads
\* included; it returns no row and changes nothing.
AnonymousRefused ==
    [][(resp'.user = "anon" /\ resp'.resource # "none") =>
          /\ resp'.status \in PermissionErrors
          /\ resp'.rows = <<>>
          /\ UNCHANGED store]_vars

AnonymousRefusedWitness ==
    /\ resp.user = "anon"
    /\ IsOrders(resp, "list")
    /\ resp.status = "NotAuthenticated"
    /\ orders # <<>>

\* C8: a bus is created only with a num_seats of at least one: a create request
\* of staff without num_seats, or with zero or a negative number, is refused as
\* invalid, and every stored bus has a seat.
NumSeatsPositive ==
    /\ \A i \in 1..Len(buses) : buses[i].num_seats >= 1
    /\ (resp.resource = "buses" /\ resp.action = "create" /\ resp.user \in StaffNames
           /\ ("num_seats" \notin DOMAIN resp.data \/ resp.data.num_seats <= 0)) =>
          resp.status = "ValidationError"

\* the decimal numeral of a facility id
RECURSIVE Decimal(_)
Decimal(n) ==
    LET d == CHOOSE c \in Digits : DigitVal(c) = n % 10
    IN  IF n < 10 THEN <<d>> ELSE Append(Decimal(n \div 10), d)

\* the id stands between two commas (or the ends) of the parameter
Names(query, id) ==
    \E i \in 1..Len(query) :
        LET j == i + Len(Decimal(id)) - 1
        IN  /\ j <= Len(query)
            /\ SubSeq(query, i, j) = Decimal(id)
            /\ (i = 1 \/ query[i - 1] = ",")
            /\ (j = Len(query) \/ query[j + 1] = ",")

\* ids separated by single commas
WellFormed(query) ==
    /\ query # <<>>
    /\ \A i \in 1..Len(query) : query[i] \in Digits \cup {","}
    /\ query[1] # "," /\ query[Len(query)] # ","
    /\ \A i \in 1..(Len(query) - 1) : ~(query[i] = "," /\ query[i + 1] = ",")

Matching(query) == {i \in 1..Len(buses) : \E f \in buses[i].facilities : Names(query, f)}

\* C9: bus list with facilities=<id,id,...> returns the buses that have at
\* least one of the given facilities, each of them once, and every bus when the
\* parameter is absent or empty.
FacilitiesFilter ==
    [][(resp'.resource = "buses" /\ resp'.action = "list" /\ UNCHANGED store) =>
          /\ (resp'.query = None \/ resp'.query = <<>>) =>
                (resp'.status = "ok" /\ resp'.rows = buses)
          /\ (resp'.query # None /\ WellFormed(resp'.query)) =>
                /\ resp'.status = "ok"
                /\ {resp'.rows[i] : i \in 1..Len(resp'.rows)} = {buses[i] : i \in Matching(resp'.query)}
                /\ \A i, j \in 1..Len(resp'.rows) : i # j => resp'.rows[i] # resp'.rows[j]]_vars

FacilitiesFilterWitness ==
    /\ resp.resource = "buses"
    /\ resp.action = "list"
    /\ resp.query = <<"1", ",", "2">>
    /\ resp.status = "ok"
    /\ Len(buses) = 2
    /\ Len(resp.rows) = 1
    /\ resp.rows[1].facilities = {1, 2}
    /\ buses[resp.rows[1].id] = resp.rows[1]

\* C10: retrieve and upload_image of an existing bus answer not-found when the
\* facilities parameter names none of the facilities of that bus, and
\* upload_image then changes nothing; without the parameter they find the bus.
FilterOnDetailActions ==
    [][(resp'.resource = "buses" /\ resp'.action \in {"retrieve", "upload_image"}
           /\ resp'.user \in StaffNames /\ resp'.pk \in 1..Len(buses) /\ resp' # resp) =>
          /\ (resp'.query # None /\ WellFormed(resp'.query) /\ resp'.pk \notin Matching(resp'.query)) =>
                (resp'.status = "NotFound" /\ UNCHANGED store)
          /\ resp'.query = None =>
                /\ resp'.status \in {"ok", "ValidationError"}
                /\ resp'.status = "ok" => resp'.rows[1].id = resp'.pk
                /\ (resp'.action = "retrieve" \/ "image" \in DOMAIN resp'.data) => resp'.status = "ok"]_vars

FilterOnDetailActionsWitness ==
    /\ resp.resource = "buses"
    /\ resp.action = "upload_image"
    /\ resp.query = <<"2">>
    /\ resp.status = "NotFound"
    /\ resp.pk \in 1..Len(buses)
    /\ buses[resp.pk].facilities = {1}
    /\ buses[resp.pk].image = ""

====
